---- MODULE Spec2Model ----
(***************************************************************************)
(* Model of app.py: the NYC Yellow Taxi dashboard script.                  *)
(*                                                                         *)
(* The script is rerun top to bottom on every user interaction.  Each run  *)
(* calls load_data() (memoized by st.cache_data), reads the sidebar        *)
(* widgets, builds the filter mask and renders.  load_data() downloads the *)
(* two resources if they are missing, reads them, cleans the trips,        *)
(* derives features, joins the zone names and maps the payment codes.      *)
(*                                                                         *)
(* Values.  A column value is optional: None is a null, Some(v) a value.   *)
(* A float is a reduced fraction <<n, d>> with d > 0; <<0, 0>> is NaN.     *)
(* A timestamp is [d |-> days since 1970-01-01, ms |-> millisecond of the  *)
(* day].                                                                   *)
(***************************************************************************)
EXTENDS Integers, Sequences, FiniteSets, TLC

\* ------------------------------------------------------------------ bounds
MaxRows == 2
BodyChunks == 2

\* --------------------------------------------------------------- constants
TRIP_PATH == "data/raw/yellow_tripdata_2024-01.parquet"
ZONE_PATH == "data/raw/taxi_zone_lookup.csv"
Paths == {TRIP_PATH, ZONE_PATH}

PAYMENT_MAP == (1 :> "Credit Card") @@ (2 :> "Cash") @@ (3 :> "No Charge")
               @@ (4 :> "Dispute") @@ (5 :> "Unknown")
DAY_ORDER == <<"Monday", "Tuesday", "Wednesday", "Thursday", "Friday",
               "Saturday", "Sunday">>
FareCap == 500
MsPerSecond == 1000
MsPerHour == 3600000
MsPerDay == 86400000

\* ------------------------------------------------------------------ values
None == <<>>
Some(v) == <<v>>
IsNone(x) == x = None
Get(x) == x[1]

RECURSIVE Gcd(_, _)
Gcd(a, b) == IF b = 0 THEN a ELSE Gcd(b, a % b)
Abs(a) == IF a < 0 THEN -a ELSE a
\* the fraction n/d in lowest terms, d > 0
Frac(n, d) ==
  LET g == Gcd(Abs(n), Abs(d))
      s == IF d < 0 THEN -1 ELSE 1
  IN  <<(s * n) \div g, (s * d) \div g>>
Num(n) == <<n, 1>>
NaN == <<0, 0>>
IsNaN(x) == x[2] = 0
\* x / y on floats; y is never zero where the code divides
FDiv(x, y) ==
  IF IsNaN(x) \/ IsNaN(y) \/ y[1] = 0 THEN NaN
  ELSE Frac(x[1] * y[2], x[2] * y[1])
\* x > y and x <= y for a float column x and a literal y.  totalOrder is the
\* comparison the dataframe library build uses: under the total order a NaN
\* is greater than every number, under IEEE every comparison with NaN is
\* false.
FGt(x, y, totalOrder) ==
  IF IsNaN(x) THEN totalOrder ELSE x[1] * y[2] > y[1] * x[2]
FLe(x, y, totalOrder) ==
  IF IsNaN(x) THEN FALSE ELSE x[1] * y[2] <= y[1] * x[2]

Ts(d, ms) == [d |-> d, ms |-> ms]
\* dropoff - pickup, in milliseconds
DeltaMs(a, b) == (a.d - b.d) * MsPerDay + (a.ms - b.ms)
TsGt(a, b) == DeltaMs(a, b) > 0

\* ---------------------------------------------------------------- cleaning
critical_cols == {"tpep_pickup_datetime", "tpep_dropoff_datetime",
                  "PULocationID", "DOLocationID", "fare_amount"}

\* drop_nulls(subset=critical_cols)
NoCriticalNull(r) == \A c \in critical_cols : ~IsNone(r[c])

\* the filter predicate; a null operand makes the predicate null and the
\* row is dropped
FilterPred(r, totalOrder) ==
  /\ ~IsNone(r.trip_distance)
  /\ FGt(Get(r.trip_distance), Num(0), totalOrder)
  /\ FGt(Get(r.fare_amount), Num(0), totalOrder)
  /\ FLe(Get(r.fare_amount), Num(FareCap), totalOrder)
  /\ TsGt(Get(r.tpep_dropoff_datetime), Get(r.tpep_pickup_datetime))

Admit(r, totalOrder) == NoCriticalNull(r) /\ FilterPred(r, totalOrder)

Clean(t, totalOrder) == SelectSeq(t, LAMBDA r : Admit(r, totalOrder))

\* ----------------------------------------------------- feature engineering
\* dt.total_seconds(): the whole seconds of a duration
total_seconds(ms) == ms \div MsPerSecond

trip_duration_minutes(r) ==
  Frac(total_seconds(DeltaMs(Get(r.tpep_dropoff_datetime),
                             Get(r.tpep_pickup_datetime))), 60)

pickup_hour(r) == Get(r.tpep_pickup_datetime).ms \div MsPerHour

\* strftime("%A"); 1970-01-01 was a Thursday
pickup_day_of_week(r) == DAY_ORDER[((Get(r.tpep_pickup_datetime).d + 3) % 7) + 1]

\* mutant: the division without its guard
trip_speed_mph_unguarded(dist, dur) == Some(FDiv(dist, FDiv(dur, Num(60))))

trip_speed_mph(dist, dur) ==
  IF dur[1] > 0 THEN Some(FDiv(dist, FDiv(dur, Num(60)))) ELSE None

Features(r) ==
  LET dur == trip_duration_minutes(r)
  IN  [tpep_pickup_datetime  |-> r.tpep_pickup_datetime,
       tpep_dropoff_datetime |-> r.tpep_dropoff_datetime,
       PULocationID          |-> r.PULocationID,
       DOLocationID          |-> r.DOLocationID,
       fare_amount           |-> r.fare_amount,
       trip_distance         |-> r.trip_distance,
       payment_type          |-> r.payment_type,
       trip_duration_minutes |-> dur,
       pickup_hour           |-> pickup_hour(r),
       pickup_day_of_week    |-> pickup_day_of_week(r),
       trip_speed_mph        |-> trip_speed_mph(Get(r.trip_distance), dur)]

\* mutant: an inner join, which drops the rows without a matching zone
RECURSIVE InnerJoin(_, _, _, _, _)
InnerJoin(left, right, key, zcol, bcol) ==
  IF left = <<>> THEN <<>>
  ELSE LET r == Head(left)
           m == SelectSeq(right, LAMBDA z : z.LocationID = Get(r[key]))
       IN  [i \in 1..Len(m) |->
              r @@ (zcol :> m[i].Zone) @@ (bcol :> m[i].Borough)]
           \o InnerJoin(Tail(left), right, key, zcol, bcol)

\* -------------------------------------------------------------- zone joins
\* df.join(right, on=key, how="left") after the rename/select of the zone
\* table: one output row per matching zone row, in the order of the left
\* table, and one row with null zone columns when nothing matches
RECURSIVE LeftJoin(_, _, _, _, _)
LeftJoin(left, right, key, zcol, bcol) ==
  IF left = <<>> THEN <<>>
  ELSE LET r == Head(left)
           m == SelectSeq(right, LAMBDA z : z.LocationID = Get(r[key]))
           out == IF m = <<>>
                  THEN << r @@ (zcol :> None) @@ (bcol :> None) >>
                  ELSE [i \in 1..Len(m) |->
                          r @@ (zcol :> m[i].Zone) @@ (bcol :> m[i].Borough)]
       IN  out \o LeftJoin(Tail(left), right, key, zcol, bcol)

\* ----------------------------------------------------------- payment label
\* cast(pl.Int64).map_elements(lambda x: PAYMENT_MAP.get(x, "Unknown")):
\* map_elements does not call the function on a null, the result is null
PaymentLabel(pt) ==
  IF IsNone(pt) THEN None
  ELSE Some(IF Get(pt) \in DOMAIN PAYMENT_MAP THEN PAYMENT_MAP[Get(pt)]
            ELSE "Unknown")

WithPaymentLabel(t) ==
  [i \in 1..Len(t) |-> t[i] @@ ("payment_label" :> PaymentLabel(t[i].payment_type))]

\* ------------------------------------------------------------ the pipeline
WithFeatures(t) == [i \in 1..Len(t) |-> Features(t[i])]

\* load_data() from the cleaning on: trips and zone table in, unified table out
Pipeline(trips, zoneTable, totalOrder) ==
  LET cleaned  == Clean(trips, totalOrder)
      featured == WithFeatures(cleaned)
      joinedPu == LeftJoin(featured, zoneTable, "PULocationID",
                           "pickup_zone", "pickup_borough")
      joinedDo == LeftJoin(joinedPu, zoneTable, "DOLocationID",
                           "dropoff_zone", "dropoff_borough")
  IN  WithPaymentLabel(joinedDo)

\* ------------------------------------------------------------- raw inputs
Row(pick, drop, pu, do, fare, dist, pay) ==
  [tpep_pickup_datetime |-> pick, tpep_dropoff_datetime |-> drop,
   PULocationID |-> pu, DOLocationID |-> do, fare_amount |-> fare,
   trip_distance |-> dist, payment_type |-> pay]

Jan5 == 19723 + 4                   \* 2024-01-05, days since 1970-01-01
T0400 == Some(Ts(Jan5, 14400000))   \* 2024-01-05T04:00:00
T0415 == Some(Ts(Jan5, 15300000))   \* 2024-01-05T04:15:00
Fare(n) == Some(Num(n))
Miles25 == Some(Frac(5, 2))

\* the rows of the end-to-end scenario
RowA == Row(T0400, T0415, Some(1), Some(2), Fare(0), Miles25, Some(1))
RowB == Row(T0400, T0400, Some(1), Some(2), Fare(10), Miles25, Some(1))
RowC == Row(T0400, T0415, Some(1), Some(2), Fare(10), Miles25, Some(1))

ValidRows ==
  { RowC,
    \* Saturday 23:30 to Sunday 00:10, fare at the cap, unknown pickup zone
    Row(Some(Ts(Jan5 + 1, 84600000)), Some(Ts(Jan5 + 2, 600000)),
        Some(999), Some(1), Fare(FareCap), Some(Num(8)), None),
    \* half a second long
    Row(T0400, Some(Ts(Jan5, 14400500)), Some(2), Some(999), Fare(3),
        Some(Frac(1, 10)), Some(7)),
    \* 90.5 seconds long
    Row(T0400, Some(Ts(Jan5, 14490500)), Some(2), Some(2), Fare(4),
        Some(Num(1)), Some(5)),
    \* a NaN distance
    Row(T0400, T0415, Some(1), Some(1), Fare(10), Some(NaN), Some(2)) }

InvalidRows ==
  { RowA, RowB,
    Row(None, T0415, Some(1), Some(2), Fare(10), Miles25, Some(1)),
    Row(T0400, T0415, Some(1), None, Fare(10), Miles25, Some(1)),
    Row(T0400, T0415, Some(1), Some(2), Fare(10), None, Some(3)),
    Row(T0400, T0415, Some(1), Some(2), Fare(10), Some(Num(0)), Some(4)),
    Row(T0400, T0415, Some(1), Some(2), Fare(FareCap + 1), Miles25, Some(1)) }

RawRows == ValidRows \cup InvalidRows

SeqsUpTo(S, n) == UNION { [1..k -> S] : k \in 0..n }

RawTables == SeqsUpTo(RawRows, MaxRows) \cup { <<RowA, RowB, RowC>> }

Zone(id, name, borough) ==
  [LocationID |-> id, Zone |-> Some(name), Borough |-> Some(borough)]

ZoneTables ==
  { <<>>,
    << Zone(1, "Midtown Center", "Manhattan"), Zone(2, "JFK Airport", "Queens") >>,
    \* a lookup whose LocationID is not a key
    << Zone(1, "Midtown Center", "Manhattan"), Zone(1, "Midtown East", "Manhattan") >> }

\* ------------------------------------------------------------------- state
VARIABLES
  remote,      \* the two remote resources: [trips, zones]
  fs,          \* local files: path -> None (absent) or Some(chunks written)
  dirExists,   \* data/raw exists
  pc,          \* position of the script run
  log,         \* what the load_data() call in progress did: requests, errors, reads
  ret,         \* how its latest _download_if_missing call on a path ended
  raw,         \* df as read by pl.read_parquet, in load_data()
  zones,       \* zones as read by pl.read_csv, in load_data()
  cache,       \* st.cache_data entry of load_data(): None or Some(df_full)
  widgets,     \* the sidebar values of this run
  df,          \* the filtered copy of this run
  rendered     \* the elements this run has put on the page

vars == <<remote, fs, dirExists, pc, log, ret, raw, zones, cache, widgets,
          df, rendered>>

TRIP_URL == "https://d37ci6vzurychx.cloudfront.net/trip-data/yellow_tripdata_2024-01.parquet"
ZONE_URL == "https://d37ci6vzurychx.cloudfront.net/misc/taxi_zone_lookup.csv"

NoWidgets == [date_range |-> <<>>, hour_range |-> <<>>, selected_payments |-> {}]

Init ==
  /\ remote \in [trips : RawTables, zones : ZoneTables]
  /\ fs = [p \in Paths |-> None]
  /\ dirExists = FALSE
  /\ pc = "idle"
  /\ log = <<>>
  /\ ret = [p \in Paths |-> "none"]
  /\ raw = None
  /\ zones = None
  /\ cache = None
  /\ widgets = NoWidgets
  /\ df = None
  /\ rendered = {}

\* a script run starts: on launch and on every widget interaction.  A
\* memoized load_data() returns at once.
StartRun ==
  /\ pc \in {"idle", "done", "stopped", "failed"}
  /\ pc' = IF IsNone(cache) THEN "fetch_trip" ELSE "sidebar"
  /\ log' = <<>>
  /\ ret' = [p \in Paths |-> "none"]
  /\ raw' = None
  /\ zones' = None
  /\ widgets' = NoWidgets
  /\ df' = None
  /\ rendered' = {}
  /\ UNCHANGED <<remote, fs, dirExists, cache>>

\* --------------------------------------------------------------- fetching
\* How a transfer ends: -1 the request fails before the file is opened
\* (unreachable host, error status, open failure); k < BodyChunks the stream
\* or the write fails after k chunks; BodyChunks the whole body is written.
Outcomes == -1 .. BodyChunks

\* mutant: a failed transfer is swallowed and the call returns
DownloadSwallowingErrors(url, path, next, o) ==
  IF ~IsNone(fs[path])
  THEN /\ ret' = [ret EXCEPT ![path] = "skipped"]
       /\ pc' = next
       /\ UNCHANGED <<fs, dirExists, log>>
  ELSE /\ dirExists' = TRUE
       /\ fs' = [fs EXCEPT ![path] = IF o < 0 THEN None ELSE Some(o)]
       /\ log' = Append(log, <<"GET", url>>)
       /\ ret' = [ret EXCEPT ![path] = "downloaded"]
       /\ pc' = next

\* mutant: the download without the os.path.exists test
DownloadAlways(url, path, next, o) ==
  /\ dirExists' = TRUE
  /\ fs' = [fs EXCEPT ![path] = IF o < 0 THEN None ELSE Some(o)]
  /\ IF o = BodyChunks
     THEN /\ log' = Append(log, <<"GET", url>>)
          /\ ret' = [ret EXCEPT ![path] = "downloaded"]
          /\ pc' = next
     ELSE /\ log' = log \o << <<"GET", url>>, <<"raise", url>> >>
          /\ ret' = [ret EXCEPT ![path] = "raised"]
          /\ pc' = "failed"

\* mutant: a failed transfer is requested a second time, which succeeds
DownloadWithRetry(url, path, next, o) ==
  IF ~IsNone(fs[path])
  THEN /\ ret' = [ret EXCEPT ![path] = "skipped"]
       /\ pc' = next
       /\ UNCHANGED <<fs, dirExists, log>>
  ELSE /\ dirExists' = TRUE
       /\ fs' = [fs EXCEPT ![path] = Some(BodyChunks)]
       /\ log' = IF o = BodyChunks
                 THEN Append(log, <<"GET", url>>)
                 ELSE log \o << <<"GET", url>>, <<"GET", url>> >>
       /\ ret' = [ret EXCEPT ![path] = "downloaded"]
       /\ pc' = next

\* _download_if_missing(url, path), continuing at next when it returns
DownloadIfMissing(url, path, next, o) ==
  IF ~IsNone(fs[path])
  THEN /\ ret' = [ret EXCEPT ![path] = "skipped"]
       /\ pc' = next
       /\ UNCHANGED <<fs, dirExists, log>>
  ELSE /\ dirExists' = TRUE
       /\ fs' = [fs EXCEPT ![path] = IF o < 0 THEN None ELSE Some(o)]
       /\ IF o = BodyChunks
          THEN /\ log' = Append(log, <<"GET", url>>)
               /\ ret' = [ret EXCEPT ![path] = "downloaded"]
               /\ pc' = next
          ELSE /\ log' = log \o << <<"GET", url>>, <<"raise", url>> >>
               /\ ret' = [ret EXCEPT ![path] = "raised"]
               /\ pc' = "failed"

FetchTrip ==
  /\ pc = "fetch_trip"
  /\ \E o \in Outcomes : DownloadIfMissing(TRIP_URL, TRIP_PATH, "fetch_zone", o)
  /\ UNCHANGED <<remote, raw, zones, cache, widgets, df, rendered>>

FetchZone ==
  /\ pc = "fetch_zone"
  /\ \E o \in Outcomes : DownloadIfMissing(ZONE_URL, ZONE_PATH, "read_parquet", o)
  /\ UNCHANGED <<remote, raw, zones, cache, widgets, df, rendered>>

\* ---------------------------------------------------------------- reading
Complete(path) == fs[path] = Some(BodyChunks)

\* pl.read_parquet(TRIP_PATH): a truncated parquet file has no footer
ReadParquet ==
  /\ pc = "read_parquet"
  /\ IF Complete(TRIP_PATH)
     THEN /\ raw' = Some(remote.trips)
          /\ log' = Append(log, <<"read", TRIP_PATH>>)
          /\ pc' = "read_csv"
     ELSE /\ raw' = raw
          /\ log' = log \o << <<"read", TRIP_PATH>>, <<"raise", TRIP_PATH>> >>
          /\ pc' = "failed"
  /\ UNCHANGED <<remote, fs, dirExists, ret, zones, cache, widgets, df, rendered>>

\* the rows of a csv table that a file of k of the body's chunks holds
RowsHeld(t, k) == SubSeq(t, 1, (Len(t) * k) \div BodyChunks)

\* pl.read_csv(ZONE_PATH): an empty file raises; a truncated file parses as
\* the rows it holds, or raises on a row cut in two
ReadCsv ==
  /\ pc = "read_csv"
  /\ \/ /\ Get(fs[ZONE_PATH]) > 0
        /\ zones' = Some(RowsHeld(remote.zones, Get(fs[ZONE_PATH])))
        /\ log' = Append(log, <<"read", ZONE_PATH>>)
        /\ pc' = "build"
     \/ /\ ~Complete(ZONE_PATH)
        /\ zones' = zones
        /\ log' = log \o << <<"read", ZONE_PATH>>, <<"raise", ZONE_PATH>> >>
        /\ pc' = "failed"
  /\ UNCHANGED <<remote, fs, dirExists, ret, raw, cache, widgets, df, rendered>>

\* the rest of load_data(): cleaning, features, joins, payment label, and
\* the memoization of the returned table; the call is over
Build ==
  /\ pc = "build"
  /\ \E totalOrder \in BOOLEAN :
       cache' = Some(Pipeline(Get(raw), Get(zones), totalOrder))
  /\ log' = <<>>
  /\ ret' = [p \in Paths |-> "none"]
  /\ pc' = "sidebar"
  /\ UNCHANGED <<remote, fs, dirExists, raw, zones, widgets, df, rendered>>

\* ------------------------------------------------------- sidebar and mask
\* dt.normalize().dt.date of the pickup timestamp
PickupDate(r) == Get(r.tpep_pickup_datetime).d

SeqMin(S) == CHOOSE x \in S : \A y \in S : x <= y
SeqMax(S) == CHOOSE x \in S : \A y \in S : x >= y

\* df_full["payment_label"].dropna().unique()
AllPaymentTypes(t) ==
  { Get(t[i].payment_label) : i \in { j \in 1..Len(t) : ~IsNone(t[j].payment_label) } }

\* what st.date_input can return for a range: one date while the user is
\* still picking, else an ordered pair, within [min_date, max_date]
DateRanges(lo, hi) ==
  { <<a>> : a \in lo..hi } \cup
  { <<p[1], p[2]>> : p \in { q \in (lo..hi) \X (lo..hi) : q[1] <= q[2] } }

\* the slider values exercised; the slider yields lo <= hi within 0..23
HourRanges == { <<0, 23>>, <<0, 3>>, <<5, 23>> }

start_date(date_range) == date_range[1]
end_date(date_range) == IF Len(date_range) = 2 THEN date_range[2] ELSE date_range[1]

\* mutant: the mask without the fallback to all payment types
MaskNoFallback(r, date_range, hour_range, selected_payments, all_payment_types) ==
  /\ PickupDate(r) >= start_date(date_range)
  /\ PickupDate(r) <= end_date(date_range)
  /\ r.pickup_hour >= hour_range[1]
  /\ r.pickup_hour <= hour_range[2]
  /\ ~IsNone(r.payment_label)
  /\ Get(r.payment_label) \in selected_payments

\* one row of the boolean mask
Mask(r, date_range, hour_range, selected_payments, all_payment_types) ==
  /\ PickupDate(r) >= start_date(date_range)
  /\ PickupDate(r) <= end_date(date_range)
  /\ r.pickup_hour >= hour_range[1]
  /\ r.pickup_hour <= hour_range[2]
  /\ ~IsNone(r.payment_label)
  /\ Get(r.payment_label) \in
       (IF selected_payments # {} THEN selected_payments ELSE all_payment_types)

Filtered(t, w) ==
  SelectSeq(t, LAMBDA r : Mask(r, w.date_range, w.hour_range,
                               w.selected_payments, AllPaymentTypes(t)))

\* mutant: the warning without st.stop()
AfterFilterNoStop(view) ==
  IF view = <<>>
  THEN rendered' = rendered \cup {"warning"} /\ pc' = "render"
  ELSE rendered' = rendered /\ pc' = "render"

\* the empty-frame guard: warn and st.stop(), else go on to render
AfterFilter(view) ==
  IF view = <<>>
  THEN rendered' = rendered \cup {"warning"} /\ pc' = "stopped"
  ELSE rendered' = rendered /\ pc' = "render"

\* the script from the sidebar to the empty-frame guard
ApplyFilters ==
  /\ pc = "sidebar"
  /\ LET df_full == Get(cache)
         dates == { PickupDate(df_full[i]) : i \in 1..Len(df_full) }
     IN  /\ df_full # <<>>
         /\ \E dr \in DateRanges(SeqMin(dates), SeqMax(dates)),
               hr \in HourRanges,
               sel \in SUBSET AllPaymentTypes(df_full) :
              LET w == [date_range |-> dr, hour_range |-> hr,
                        selected_payments |-> sel]
              IN  /\ widgets' = w
                  /\ df' = Some(Filtered(df_full, w))
                  /\ AfterFilter(Filtered(df_full, w))
  /\ UNCHANGED <<remote, fs, dirExists, log, ret, raw, zones, cache>>

\* the same on an empty unified table: min_date and max_date are NaT; the
\* date widget either rejects them or the empty mask reaches the guard
ApplyFiltersEmpty ==
  /\ pc = "sidebar"
  /\ Get(cache) = <<>>
  /\ \/ /\ pc' = "failed"
        /\ UNCHANGED <<df, rendered>>
     \/ /\ df' = Some(<<>>)
        /\ AfterFilter(<<>>)
  /\ UNCHANGED <<remote, fs, dirExists, log, ret, raw, zones, cache, widgets>>

\* ---------------------------------------------------------------- render
Charts == {"tab1", "tab2", "tab3", "tab4", "tab5"}

\* the rest of the script: header, KPI metrics and the five chart tabs
Render ==
  /\ pc = "render"
  /\ rendered' = rendered \cup {"header", "kpis"} \cup Charts
  /\ pc' = "done"
  /\ UNCHANGED <<remote, fs, dirExists, log, ret, raw, zones, cache, widgets, df>>

Next ==
  \/ StartRun
  \/ FetchTrip
  \/ FetchZone
  \/ ReadParquet
  \/ ReadCsv
  \/ Build
  \/ ApplyFilters
  \/ ApplyFiltersEmpty
  \/ Render

Spec == Init /\ [][Next]_vars

\* ================================================================= claims
Unified == IF IsNone(cache) THEN <<>> ELSE Get(cache)
Rows == { Unified[i] : i \in 1..Len(Unified) }
IsPositive(x) == ~IsNaN(x) /\ x[1] > 0
AtMost(x, n) == ~IsNaN(x) /\ x[1] <= n * x[2]

\* C1: every row of the table load_data returns has no missing pickup or
\* dropoff timestamp, pickup or dropoff location id or fare_amount, has
\* trip_distance > 0 and 0 < fare_amount <= 500, and a dropoff strictly
\* after the pickup.
C1_AdmissionInvariants ==
  \A r \in Rows :
    /\ \A c \in critical_cols : ~IsNone(r[c])
    /\ ~IsNone(r.trip_distance)
    /\ IsPositive(Get(r.trip_distance))
    /\ IsPositive(Get(r.fare_amount))
    /\ AtMost(Get(r.fare_amount), FareCap)
    /\ DeltaMs(Get(r.tpep_dropoff_datetime), Get(r.tpep_pickup_datetime)) > 0

\* C2 (as stated): whenever a _download_if_missing call returns without
\* raising, the file at its path holds the complete resource body, also
\* after an earlier call that raised part-way through the transfer.
C2_ReturnMeansComplete ==
  \A p \in Paths : ret[p] \in {"skipped", "downloaded"} => fs[p] = Some(BodyChunks)

\* C2 (amended): whenever a _download_if_missing call that found no file at
\* its path returns without raising, the file holds the complete resource
\* body; a call that finds a file returns with the file still there.
C2_DownloadedMeansComplete ==
  \A p \in Paths :
    /\ ret[p] = "downloaded" => fs[p] = Some(BodyChunks)
    /\ ret[p] = "skipped" => ~IsNone(fs[p])

C2_Witness ==
  /\ ret[ZONE_PATH] = "downloaded"
  /\ ret[TRIP_PATH] = "skipped"
  /\ fs[ZONE_PATH] = Some(BodyChunks)

\* C3: a _download_if_missing call on a path whose file exists issues no
\* request and leaves the file as it is; a file that exists is never removed
\* or rewritten, so every later call for it issues no request either.
Calling(p) ==
  \/ pc = "fetch_trip" /\ p = TRIP_PATH
  \/ pc = "fetch_zone" /\ p = ZONE_PATH

C3_FetchIdempotent ==
  [][\A p \in Paths :
       /\ (Calling(p) /\ ~IsNone(fs[p])) => (fs' = fs /\ log' = log /\ pc' # "failed")
       /\ ~IsNone(fs[p]) => fs'[p] = fs[p]]_vars

C3_Witness ==
  /\ ret[TRIP_PATH] = "skipped"
  /\ pc = "fetch_zone"
  /\ log = <<>>

\* C4: payment_label is "Credit Card", "Cash", "No Charge", "Dispute",
\* "Unknown" for payment_type 1..5 and "Unknown" for every other value and
\* for a missing payment_type; it is never absent.
ExpectedLabel(pt) ==
  CASE pt = Some(1) -> "Credit Card"
    [] pt = Some(2) -> "Cash"
    [] pt = Some(3) -> "No Charge"
    [] pt = Some(4) -> "Dispute"
    [] OTHER -> "Unknown"

C4_PaymentLabel ==
  \A r \in Rows : r.payment_label = Some(ExpectedLabel(r.payment_type))

\* C5: given a zone table keyed by a unique location id, every admitted row
\* appears exactly once and in order in the unified table; its pickup
\* (dropoff) zone and borough are those of the zone row with its pickup
\* (dropoff) location id, and are absent when there is no such zone row.
UniqueKey(zt) ==
  \A i, j \in 1..Len(zt) : zt[i].LocationID = zt[j].LocationID => i = j

ZoneOf(zt, id, col) ==
  IF \E i \in 1..Len(zt) : zt[i].LocationID = id
  THEN (CHOOSE z \in { zt[i] : i \in 1..Len(zt) } : z.LocationID = id)[col]
  ELSE None

RawCols == {"tpep_pickup_datetime", "tpep_dropoff_datetime", "PULocationID",
            "DOLocationID", "fare_amount", "trip_distance", "payment_type"}

C5_JoinsPreserveRows ==
  (pc = "sidebar" /\ ~IsNone(raw) /\ ~IsNone(zones) /\ UniqueKey(Get(zones))) =>
    \E totalOrder \in BOOLEAN :
      LET admitted == SelectSeq(Get(raw), LAMBDA r : Admit(r, totalOrder))
          zt == Get(zones)
      IN  /\ Len(Unified) = Len(admitted)
          /\ \A i \in 1..Len(admitted) :
               LET u == Unified[i]
               IN  /\ \A c \in RawCols : u[c] = admitted[i][c]
                   /\ u.pickup_zone = ZoneOf(zt, Get(u.PULocationID), "Zone")
                   /\ u.pickup_borough = ZoneOf(zt, Get(u.PULocationID), "Borough")
                   /\ u.dropoff_zone = ZoneOf(zt, Get(u.DOLocationID), "Zone")
                   /\ u.dropoff_borough = ZoneOf(zt, Get(u.DOLocationID), "Borough")

C5_Witness ==
  /\ pc = "sidebar"
  /\ ~IsNone(zones)
  /\ Len(Get(zones)) = 2
  /\ UniqueKey(Get(zones))
  /\ Len(Unified) = 2
  /\ IsNone(Unified[1].pickup_zone)
  /\ Unified[1].dropoff_zone = Some("Midtown Center")
  /\ Unified[2].pickup_zone = Some("JFK Airport")
  /\ IsNone(Unified[2].dropoff_zone)

\* C6: a row whose trip_duration_minutes is 0 has no trip_speed_mph; a row
\* whose trip_duration_minutes is greater than 0 has a trip_speed_mph, and
\* trip_speed_mph * (trip_duration_minutes / 60) = trip_distance.
C6_SpeedGuard ==
  \A r \in Rows :
    LET dur == r.trip_duration_minutes
        dist == Get(r.trip_distance)
    IN  /\ dur[1] = 0 => IsNone(r.trip_speed_mph)
        /\ dur[1] > 0 =>
             /\ ~IsNone(r.trip_speed_mph)
             /\ LET v == Get(r.trip_speed_mph)
                IN  IF IsNaN(dist) THEN IsNaN(v)
                    ELSE /\ ~IsNaN(v)
                         /\ v[1] * dur[1] * dist[2] = dist[1] * 60 * v[2] * dur[2]

C6_Witness ==
  /\ \E r \in Rows : r.trip_duration_minutes = Num(0) /\ IsNone(r.trip_speed_mph)
  /\ \E r \in Rows : r.trip_duration_minutes = Num(15) /\ r.trip_speed_mph = Some(Num(10))

C8_DerivedFeatures ==
  /\ \A r \in Rows :
       LET pick == Get(r.tpep_pickup_datetime)
           drop == Get(r.tpep_dropoff_datetime)
           dur == r.trip_duration_minutes
       IN  /\ dur[1] * 60000 = DeltaMs(drop, pick) * dur[2]
           /\ r.pickup_hour \in 0..23
           /\ r.pickup_hour * MsPerHour <= pick.ms
           /\ pick.ms < (r.pickup_hour + 1) * MsPerHour
           /\ \E k \in 1..7 : /\ r.pickup_day_of_week = DAY_ORDER[k]
                              /\ (pick.d - (Jan5 - 4) - (k - 1)) % 7 = 0
  /\ (pc = "sidebar" /\ raw = Some(<<RowA, RowB, RowC>>) /\ UniqueKey(Get(zones))) =>
       /\ Len(Unified) = 1
       /\ Unified[1].trip_duration_minutes = Num(15)
       /\ Unified[1].trip_speed_mph = Some(Num(10))
       /\ Unified[1].pickup_hour = 4
       /\ Unified[1].pickup_day_of_week = "Friday"

\* C9: within one run of load_data no resource is requested twice; once a
\* fetch raises, the run has failed with nothing done after it: no further
\* request, no read, no table returned; and when the trip-file fetch raises
\* the zone file is not requested.
Count(ev) == Cardinality({ i \in 1..Len(log) : log[i] = ev })

C9_FetchFailureIsFatal ==
  /\ \A u \in {TRIP_URL, ZONE_URL} : Count(<<"GET", u>>) <= 1
  /\ \A u \in {TRIP_URL, ZONE_URL} : \A i \in 1..Len(log) :
       log[i] = <<"raise", u>> =>
         /\ i = Len(log)
         /\ log[i - 1] = <<"GET", u>>
         /\ pc = "failed"
         /\ IsNone(cache) /\ IsNone(raw) /\ IsNone(zones)
         /\ \A j \in 1..Len(log) : log[j][1] # "read"
  /\ Count(<<"raise", TRIP_URL>>) > 0 => Count(<<"GET", ZONE_URL>>) = 0

C9_Witness ==
  /\ pc = "failed"
  /\ log = << <<"GET", ZONE_URL>>, <<"raise", ZONE_URL>> >>
  /\ ret[TRIP_PATH] = "skipped"

\* C10: a run whose filtered table is empty shows the warning and stops with
\* no header, KPI or chart rendered; a run whose filtered table has rows
\* shows no warning and goes on to render; the header, the KPIs and the
\* charts appear only for a filtered table with rows; and no step changes a
\* memoized unified table.
Page == {"header", "kpis"} \cup Charts

C10_EmptyStateHalts ==
  /\ [](/\ df = Some(<<>>) => (rendered = {"warning"} /\ pc = "stopped")
        /\ (~IsNone(df) /\ df # Some(<<>>)) =>
              ("warning" \notin rendered /\ pc \in {"render", "done"})
        /\ rendered \cap Page # {} => (~IsNone(df) /\ df # Some(<<>>))
        /\ pc = "done" => Page \subseteq rendered)
  /\ [][~IsNone(cache) => cache' = cache]_vars

C10_Witness ==
  /\ df = Some(<<>>)
  /\ Unified # <<>>
  /\ rendered = {"warning"}
  /\ pc = "stopped"

====
